---------------------------- MODULE Spec2Model ----------------------------
(***************************************************************************)
(* A model of the gaze pipeline of physio-data-parsing:                    *)
(*                                                                         *)
(*   src/Gaze/GazeDataLoader.py         find_nearest, parse_events,        *)
(*                                      load_gaze_files / load_and_filter  *)
(*   src/Gaze/DataWrangling_Dataviewer.py   parse_identifier               *)
(*                                                                         *)
(* Four specifications share the variables below; each one runs one of the *)
(* four operations and leaves the state of the other three idle:           *)
(*                                                                         *)
(*   SpecNearest    find_nearest on a sorted array and a query             *)
(*   SpecEvents     parse_events: one loop iteration per event, then the   *)
(*                  dropna/reset_index that builds the returned table      *)
(*   SpecClassify   parse_identifier: the derived columns in source order  *)
(*   SpecLoader     load_gaze_files: the four load_and_filter calls, the   *)
(*                  pupil step, the outlier filters                        *)
(*                                                                         *)
(* Python indices are 0-based and are kept 0-based here; At(a, i) reads    *)
(* the TLA+ sequence a at the Python index i.                              *)
(***************************************************************************)
EXTENDS Integers, Sequences, FiniteSets, TLC

VARIABLES
    \* find_nearest
    array,          \* the sorted array argument
    value,          \* the query argument
    nearest,        \* the returned pair <<element, index>>, NoResult before the call
    fnpc,           \* "call" | "return"
    \* parse_events
    tStart,         \* data['tStart'].values
    tEnd,           \* data['tEnd'].values
    events,         \* the rows of `events` the loop has iterated over, in order
    eventCol,       \* data['event'], NaN where unset
    pepc,           \* "init" | "loop" | "done"
    output,         \* the returned table, one record per kept row
    \* parse_identifier, on one row of df
    RECORDING_SESSION_LABEL,
    identifier,
    ParticipantID,
    FilePart,
    PartNo,
    TrialType,
    Text,
    Stage,
    PageNum,
    pipc,           \* "parse" | "pagenum" | "done"
    \* load_gaze_files
    nfiles,         \* per family, the number of files glob finds
    read,           \* per family loaded so far, the files load_and_filter has read
    merged,         \* per family loaded so far, what load_and_filter returned:
                    \* all_fix, all_sac, all_blink, all_sample
    pupil_size,     \* all_sample['pupil_size'], empty until it is computed
    lgpc,           \* the family to load next, then "pupil" | "clean" | "returned" | "raised"
    returned,       \* the tuple the call returned, empty until it returns
    raised          \* the exception that ended the call, NoError while there is none

nearestVars == <<array, value, nearest, fnpc>>
eventVars == <<tStart, tEnd, events, eventCol, pepc, output>>
classifyVars == <<RECORDING_SESSION_LABEL, identifier, ParticipantID, FilePart, PartNo,
                  TrialType, Text, Stage, PageNum, pipc>>
loaderVars == <<nfiles, read, merged, pupil_size, lgpc, returned, raised>>
vars == <<nearestVars, eventVars, classifyVars, loaderVars>>

----------------------------------------------------------------------------
(* Bounds of the model *)

\* longest array handed to find_nearest
MaxLen == 3
\* array elements are 10, 20, ..., 10 * MaxTick; queries are every multiple
\* of 5 from 5 to 10 * MaxTick + 5 (so: below, on, midway between, above)
MaxTick == 3
\* most rows of the sample table handed to parse_events
MaxSamples == 3
\* most rows of the events table handed to parse_events
MaxEvents == 2
\* an identifier is made of at most this many fragments of IdentifierFragments
MaxFragments == 2
\* most files of one family in the data directory
MaxFiles == 2
\* most rows in the files of one family, all files together
MaxRows == 2

----------------------------------------------------------------------------
(* Helpers *)

At(a, i) == a[i + 1]

Abs(x) == IF x < 0 THEN -x ELSE x

IsSorted(a) == \A i \in 1..(Len(a) - 1) : a[i] <= a[i + 1]

\* all non-decreasing sequences over S of length lo..hi
SortedSeqs(S, lo, hi) ==
    UNION {{a \in [1..n -> S] : IsSorted(a)} : n \in lo..hi}

NoResult == <<>>

\* the concatenation of a sequence of sequences
RECURSIVE Flatten(_)
Flatten(ss) == IF ss = <<>> THEN <<>> ELSE Head(ss) \o Flatten(Tail(ss))

----------------------------------------------------------------------------
(* GazeDataLoader.find_nearest *)

\* np.searchsorted(array, value, side="left"): numpy's binary search for the
\* leftmost insertion point, on the half-open interval [lo, hi)
RECURSIVE binsearch_left(_, _, _, _)
binsearch_left(a, key, lo, hi) ==
    IF lo < hi
    THEN LET mid == lo + ((hi - lo) \div 2)
         IN  IF At(a, mid) < key
             THEN binsearch_left(a, key, mid + 1, hi)
             ELSE binsearch_left(a, key, lo, mid)
    ELSE lo

searchsorted(a, v) == binsearch_left(a, v, 0, Len(a))

\* a plausible bug: `<=` instead of `<`, which prefers idx - 1 on a tie
find_nearest_tie_low(a, v) ==
    LET idx == searchsorted(a, v)
    IN  IF idx > 0 /\ (idx = Len(a) \/ Abs(v - At(a, idx - 1)) <= Abs(v - At(a, idx)))
        THEN <<At(a, idx - 1), idx - 1>>
        ELSE <<At(a, idx), idx>>

\* a plausible bug: the distance comparison left out
find_nearest_no_compare(a, v) ==
    LET idx == searchsorted(a, v)
    IN  IF idx > 0 /\ idx = Len(a)
        THEN <<At(a, idx - 1), idx - 1>>
        ELSE <<At(a, idx), idx>>

find_nearest(a, v) ==
    LET idx == searchsorted(a, v)
    IN  IF idx > 0 /\ (idx = Len(a) \/ Abs(v - At(a, idx - 1)) < Abs(v - At(a, idx)))
        THEN <<At(a, idx - 1), idx - 1>>
        ELSE <<At(a, idx), idx>>

NearestArrays == SortedSeqs({10 * k : k \in 1..MaxTick}, 1, MaxLen)
NearestQueries == {5 * k : k \in 1..(2 * MaxTick + 1)}

\* the call: lines 77-80
FindNearest ==
    /\ fnpc = "call"
    /\ nearest' = find_nearest(array, value)
    /\ fnpc' = "return"
    /\ UNCHANGED <<array, value>>

\* the caller asks again, with another query on the same array
NextQuery ==
    /\ fnpc = "return"
    /\ value' \in NearestQueries
    /\ nearest' = NoResult
    /\ fnpc' = "call"
    /\ UNCHANGED array

----------------------------------------------------------------------------
(* GazeDataLoader.parse_events *)

NaN == "NaN"

\* the sample table: tStart and tEnd take these values (milliseconds)
SampleTimes == {0, 500, 1000}
\* an event's eye_sample (milliseconds): on a sample's tStart, or between two
EventOnsets == {0, 250, 500}
\* an event's duration_sec (seconds)
EventDurations == {0, 1}
\* an event's EVENT label, never missing
EventLabels == {"A", "B"}

EventRows == [eye_sample : EventOnsets, duration_sec : EventDurations, EVENT : EventLabels]

\* seconds to milliseconds, line 96
MsPerSec == 1000

\* lines 95-96: the two find_nearest calls of one loop iteration
EventRange(ts, te, event) ==
    LET s == find_nearest(ts, event.eye_sample)
        start_time == s[1]
        e == find_nearest(te, start_time + event.duration_sec * MsPerSec)
    IN  [start_idx |-> s[2], end_idx |-> e[2]]

\* a plausible bug: a slice that includes start_idx
SetEvent_from_start(col, start_idx, end_idx, label) ==
    [i \in 1..Len(col) |->
        IF start_idx <= i - 1 /\ i - 1 <= end_idx THEN label ELSE col[i]]

\* a plausible bug: a sample once tagged keeps its tag
SetEvent_keep_first(col, start_idx, end_idx, label) ==
    [i \in 1..Len(col) |->
        IF start_idx + 1 <= i - 1 /\ i - 1 <= end_idx /\ col[i] = NaN
        THEN label ELSE col[i]]

\* line 97: data.loc[start_idx+1:end_idx, 'event'] = label. A .loc slice is by
\* label and includes both ends; on the index 0..n-1 it selects the rows
\* start_idx+1 <= i <= end_idx, none when start_idx+1 > end_idx.
SetEvent(col, start_idx, end_idx, label) ==
    [i \in 1..Len(col) |->
        IF start_idx + 1 <= i - 1 /\ i - 1 <= end_idx THEN label ELSE col[i]]

\* line 99: data.dropna(subset=['event']).reset_index(drop=True); a row keeps
\* its columns, idx is the index it had in the input table
DropNa(ts, te, col) ==
    SelectSeq([i \in 1..Len(col) |->
                  [idx |-> i - 1, tStart |-> ts[i], tEnd |-> te[i], event |-> col[i]]],
              LAMBDA row : row.event # NaN)

\* line 93: data['event'] = np.nan
ClearEvents ==
    /\ pepc = "init"
    /\ eventCol' = [i \in 1..Len(tStart) |-> NaN]
    /\ pepc' = "loop"
    /\ UNCHANGED <<tStart, tEnd, events, output>>

\* lines 94-97: one iteration of the loop, on the next row of `events`
TagEvent ==
    /\ pepc = "loop"
    /\ Len(events) < MaxEvents
    /\ \E event \in EventRows :
           LET r == EventRange(tStart, tEnd, event)
           IN  /\ eventCol' = SetEvent(eventCol, r.start_idx, r.end_idx, event.EVENT)
               /\ events' = Append(events, event)
    /\ UNCHANGED <<tStart, tEnd, pepc, output>>

\* line 99: the rows of `events` are exhausted
ReturnTagged ==
    /\ pepc = "loop"
    /\ output' = DropNa(tStart, tEnd, eventCol)
    /\ pepc' = "done"
    /\ UNCHANGED <<tStart, tEnd, events, eventCol>>

----------------------------------------------------------------------------
(* DataWrangling.parse_identifier *)

(* A Python str is modelled as the sequence of its characters, so that      *)
(* `sub in s`, s.lower(), s[0:8] and the scan for a digit are computed on   *)
(* the characters, as Python computes them.                                 *)

\* the string literals of parse_identifier
S_Sham == <<"S", "h", "a", "m">>
S_Practice == <<"P", "r", "a", "c", "t", "i", "c", "e">>
S_MW == <<"M", "W">>
S_SVT == <<"S", "V", "T">>
S_Inf == <<"I", "n", "f">>
S_Rote == <<"R", "o", "t", "e">>
S_Deep == <<"D", "e", "e", "p">>
S_DriftCorrect == <<"D", "r", "i", "f", "t", "C", "o", "r", "r", "e", "c", "t">>
S_Recal == <<"R", "e", "c", "a", "l">>
S_BIGBREAK == <<"B", "I", "G", "B", "R", "E", "A", "K">>
S_Resting == <<"R", "e", "s", "t", "i", "n", "g">>
S_Localizer == <<"L", "o", "c", "a", "l", "i", "z", "e", "r">>
S_IBI_began == <<"I", "B", "I", " ", "b", "e", "g", "a", "n">>
S_Lang_Task == <<"L", "a", "n", "g", " ", "T", "a", "s", "k">>
S_UNDEFINED == <<"U", "N", "D", "E", "F", "I", "N", "E", "D">>
S_sham == <<"s", "h", "a", "m">>
S_ShamStart == <<"S", "h", "a", "m", "S", "t", "a", "r", "t">>
S_EML1_001 == <<"E", "M", "L", "1", "_", "0", "0", "1">>
S_Validity == <<"V", "a", "l", "i", "d", "i", "t", "y">>
S_Bias == <<"B", "i", "a", "s">>
S_CausalClaims == <<"C", "a", "u", "s", "a", "l", "C", "l", "a", "i", "m", "s">>
S_Variables == <<"V", "a", "r", "i", "a", "b", "l", "e", "s">>
S_Hypotheses == <<"H", "y", "p", "o", "t", "h", "e", "s", "e", "s">>
S_Z_Question == <<"Z", "_", "Q", "u", "e", "s", "t", "i", "o", "n">>
S_Y_Question == <<"Y", "_", "Q", "u", "e", "s", "t", "i", "o", "n">>

UpperCase == <<"A", "B", "C", "D", "E", "F", "G", "H", "I", "J", "K", "L", "M",
               "N", "O", "P", "Q", "R", "S", "T", "U", "V", "W", "X", "Y", "Z">>
LowerCase == <<"a", "b", "c", "d", "e", "f", "g", "h", "i", "j", "k", "l", "m",
               "n", "o", "p", "q", "r", "s", "t", "u", "v", "w", "x", "y", "z">>
Digits == <<"0", "1", "2", "3", "4", "5", "6", "7", "8", "9">>

\* sub in s
Contains(sub, s) ==
    \E i \in 0..(Len(s) - Len(sub)) : \A j \in 1..Len(sub) : s[i + j] = sub[j]

\* s.lower()
LowerChar(c) ==
    IF \E k \in 1..Len(UpperCase) : UpperCase[k] = c
    THEN LowerCase[CHOOSE k \in 1..Len(UpperCase) : UpperCase[k] = c]
    ELSE c

Lower(s) == [i \in 1..Len(s) |-> LowerChar(s[i])]

\* c.isdigit() and int(c), for one character
IsDigit(c) == \E k \in 1..Len(Digits) : Digits[k] = c

IntOf(c) == (CHOOSE k \in 1..Len(Digits) : Digits[k] = c) - 1

\* s[0:n] and s[-n:]
Prefix(s, n) == SubSeq(s, 1, IF n < Len(s) THEN n ELSE Len(s))

Suffix(s, n) == SubSeq(s, IF n < Len(s) THEN Len(s) - n + 1 ELSE 1, Len(s))

\* the two kinds of value pagenum_conditions returns: an int, or the str ""
IntValue(p) == [type |-> "int", v |-> p]

EmptyStr == [type |-> "str", v |-> 0]

\* not yet computed
Unset == "unset"

\* a plausible bug: two rules in the other order, Practice before Sham
trialtype_conditions_practice_first(id, pid) ==
    IF Contains(S_Practice, id) THEN "Prac" ELSE
    IF Contains(S_Sham, id) THEN "sham" ELSE
    IF Contains(S_MW, id) THEN "MW" ELSE
    IF Contains(S_SVT, id) THEN "SVT" ELSE
    IF Contains(S_Inf, id) THEN "Inference" ELSE
    IF Contains(S_Rote, id) THEN "Rote" ELSE
    IF Contains(S_Deep, id) THEN "Deep" ELSE
    IF Contains(S_DriftCorrect, id) THEN "DriftCorrect" ELSE
    IF Contains(S_Recal, id) THEN "Recal" ELSE
    IF Contains(S_BIGBREAK, id) THEN "Break" ELSE
    IF Contains(S_Resting, id) THEN "restingState" ELSE
    IF Contains(S_Localizer, id) THEN "Localizer" ELSE
    IF Contains(S_IBI_began, id) THEN "Localizer" ELSE
    IF Contains(S_Lang_Task, id) THEN "Localizer" ELSE
    IF Contains(S_UNDEFINED, id) THEN "UNDEFINED" ELSE
    IF Contains(S_EML1_001, pid) /\ Contains(S_sham, Lower(id)) THEN "NA" ELSE
    IF Contains(S_ShamStart, id) THEN "NA" ELSE
    "reading"

\* a plausible bug: the ShamStart rule placed where it can match, before Sham
trialtype_conditions_shamstart_first(id, pid) ==
    IF Contains(S_ShamStart, id) THEN "NA" ELSE
    IF Contains(S_Sham, id) THEN "sham" ELSE
    IF Contains(S_Practice, id) THEN "Prac" ELSE
    IF Contains(S_MW, id) THEN "MW" ELSE
    IF Contains(S_SVT, id) THEN "SVT" ELSE
    IF Contains(S_Inf, id) THEN "Inference" ELSE
    IF Contains(S_Rote, id) THEN "Rote" ELSE
    IF Contains(S_Deep, id) THEN "Deep" ELSE
    IF Contains(S_DriftCorrect, id) THEN "DriftCorrect" ELSE
    IF Contains(S_Recal, id) THEN "Recal" ELSE
    IF Contains(S_BIGBREAK, id) THEN "Break" ELSE
    IF Contains(S_Resting, id) THEN "restingState" ELSE
    IF Contains(S_Localizer, id) THEN "Localizer" ELSE
    IF Contains(S_IBI_began, id) THEN "Localizer" ELSE
    IF Contains(S_Lang_Task, id) THEN "Localizer" ELSE
    IF Contains(S_UNDEFINED, id) THEN "UNDEFINED" ELSE
    IF Contains(S_EML1_001, pid) /\ Contains(S_sham, Lower(id)) THEN "NA" ELSE
    "reading"

\* lines 37-55
trialtype_conditions(id, pid) ==
    IF Contains(S_Sham, id) THEN "sham" ELSE
    IF Contains(S_Practice, id) THEN "Prac" ELSE
    IF Contains(S_MW, id) THEN "MW" ELSE
    IF Contains(S_SVT, id) THEN "SVT" ELSE
    IF Contains(S_Inf, id) THEN "Inference" ELSE
    IF Contains(S_Rote, id) THEN "Rote" ELSE
    IF Contains(S_Deep, id) THEN "Deep" ELSE
    IF Contains(S_DriftCorrect, id) THEN "DriftCorrect" ELSE
    IF Contains(S_Recal, id) THEN "Recal" ELSE
    IF Contains(S_BIGBREAK, id) THEN "Break" ELSE
    IF Contains(S_Resting, id) THEN "restingState" ELSE
    IF Contains(S_Localizer, id) THEN "Localizer" ELSE
    IF Contains(S_IBI_began, id) THEN "Localizer" ELSE
    IF Contains(S_Lang_Task, id) THEN "Localizer" ELSE
    IF Contains(S_UNDEFINED, id) THEN "UNDEFINED" ELSE
    IF Contains(S_EML1_001, pid) /\ Contains(S_sham, Lower(id)) THEN "NA" ELSE
    IF Contains(S_ShamStart, id) THEN "NA" ELSE
    "reading"

\* lines 60-66
text_conditions(id) ==
    IF Contains(S_Validity, id) THEN "Validity" ELSE
    IF Contains(S_Bias, id) THEN "Bias" ELSE
    IF Contains(S_CausalClaims, id) THEN "CausalClaims" ELSE
    IF Contains(S_Variables, id) THEN "Variables" ELSE
    IF Contains(S_Hypotheses, id) THEN "Hypotheses" ELSE
    "NA"

\* lines 71-74
stage_conditions(id) ==
    IF Contains(S_Z_Question, id) THEN "Y" ELSE
    IF Contains(S_Y_Question, id) THEN "Z" ELSE
    "X"

\* lines 79-86: the loop over the characters of the identifier, from position i
RECURSIVE pagenum_scan(_, _, _)
pagenum_scan(id, trialtype, i) ==
    IF i > Len(id) THEN EmptyStr
    ELSE IF IsDigit(id[i])
         THEN LET p == IntOf(id[i])
              IN  IF trialtype \in {"reading", "sham", "prac"}
                  THEN IntValue(p + 1)
                  ELSE IntValue(p)
         ELSE pagenum_scan(id, trialtype, i + 1)

pagenum_conditions(id, trialtype) == pagenum_scan(id, trialtype, 1)

\* the pieces identifiers are made of: every literal of the rules, a
\* lower-case sham, the tail of ShamStart, two digits and a neutral piece
IdentifierFragments ==
    {<<"S", "h", "a", "m">>,
     <<"s", "h", "a", "m">>,
     <<"S", "t", "a", "r", "t">>,
     <<"P", "r", "a", "c", "t", "i", "c", "e">>,
     <<"M", "W">>,
     <<"S", "V", "T">>,
     <<"I", "n", "f">>,
     <<"R", "o", "t", "e">>,
     <<"D", "e", "e", "p">>,
     <<"D", "r", "i", "f", "t", "C", "o", "r", "r", "e", "c", "t">>,
     <<"R", "e", "c", "a", "l">>,
     <<"B", "I", "G", "B", "R", "E", "A", "K">>,
     <<"R", "e", "s", "t", "i", "n", "g">>,
     <<"L", "o", "c", "a", "l", "i", "z", "e", "r">>,
     <<"I", "B", "I", " ", "b", "e", "g", "a", "n">>,
     <<"L", "a", "n", "g", " ", "T", "a", "s", "k">>,
     <<"U", "N", "D", "E", "F", "I", "N", "E", "D">>,
     <<"V", "a", "l", "i", "d", "i", "t", "y">>,
     <<"B", "i", "a", "s">>,
     <<"C", "a", "u", "s", "a", "l", "C", "l", "a", "i", "m", "s">>,
     <<"V", "a", "r", "i", "a", "b", "l", "e", "s">>,
     <<"H", "y", "p", "o", "t", "h", "e", "s", "e", "s">>,
     <<"Z", "_", "Q", "u", "e", "s", "t", "i", "o", "n">>,
     <<"Y", "_", "Q", "u", "e", "s", "t", "i", "o", "n">>,
     <<"3">>,
     <<"0">>,
     <<"_", "p">>}

Identifiers ==
    {Flatten(fs) : fs \in UNION {[1..n -> IdentifierFragments] : n \in 0..MaxFragments}}

\* the recording labels: the sentinel participant and another one
SessionLabels ==
    {<<"E", "M", "L", "1", "_", "0", "0", "1", "_", "1">>,
     <<"E", "M", "L", "1", "_", "0", "0", "2", "_", "1">>}

\* lines 32-76: the columns computed from the label and the identifier alone
ParseColumns ==
    /\ pipc = "parse"
    /\ ParticipantID' = Prefix(RECORDING_SESSION_LABEL, 8)
    /\ FilePart' = Suffix(RECORDING_SESSION_LABEL, 5)
    /\ PartNo' = Suffix(RECORDING_SESSION_LABEL, 1)
    /\ TrialType' = trialtype_conditions(identifier, ParticipantID')
    /\ Text' = text_conditions(identifier)
    /\ Stage' = stage_conditions(identifier)
    /\ pipc' = "pagenum"
    /\ UNCHANGED <<RECORDING_SESSION_LABEL, identifier, PageNum>>

\* lines 79-88: PageNum, which reads the TrialType column computed above
ParsePageNum ==
    /\ pipc = "pagenum"
    /\ PageNum' = pagenum_conditions(identifier, TrialType)
    /\ pipc' = "done"
    /\ UNCHANGED <<RECORDING_SESSION_LABEL, identifier, ParticipantID, FilePart, PartNo,
                   TrialType, Text, Stage>>

----------------------------------------------------------------------------
(* GazeDataLoader.load_gaze_files *)

\* the four families, in the order load_gaze_files loads them (lines 146-149)
Families == <<"Fixation", "Saccade", "Blink", "Sample">>

FamilySet == {Families[k] : k \in 1..Len(Families)}

NoError == "none"

\* the rows a file of each family may hold; the Sample files have no eye column
FixationRows ==
    {[tStart |-> 0, eye |-> "R", duration |-> 40],
     [tStart |-> 0, eye |-> "R", duration |-> 100],
     [tStart |-> 500, eye |-> "L", duration |-> 100]}

SaccadeRows ==
    {[tStart |-> 0, eye |-> "R", ampDeg |-> 1, vPeak |-> 5, duration |-> 50],
     [tStart |-> 500, eye |-> "R", ampDeg |-> 1, vPeak |-> 100, duration |-> 50],
     [tStart |-> 500, eye |-> "R", ampDeg |-> 1, vPeak |-> 1000, duration |-> 50]}

BlinkRows ==
    {[tStart |-> 0, eye |-> "R"],
     [tStart |-> 500, eye |-> "R"],
     [tStart |-> 500, eye |-> "L"]}

SampleRows ==
    {[tSample |-> 0, RPupil |-> 0, LPupil |-> 0],
     [tSample |-> 500, RPupil |-> 4, LPupil |-> 6],
     [tSample |-> 1000, RPupil |-> 6, LPupil |-> 0]}

FamilyRows(family) ==
    IF family = "Fixation" THEN FixationRows
    ELSE IF family = "Saccade" THEN SaccadeRows
    ELSE IF family = "Blink" THEN BlinkRows
    ELSE SampleRows

\* the number of rows of a list of files
RECURSIVE RowCount(_)
RowCount(files) == IF files = <<>> THEN 0 ELSE Len(Head(files)) + RowCount(Tail(files))

\* the contents n files of a family may have: every file holds a row
FileContents(family, n) ==
    {files \in [1..n -> UNION {[1..m -> FamilyRows(family)] : m \in 1..MaxRows}] :
        RowCount(files) <= MaxRows}

\* line 142: pd.read_csv(file).query("eye == 'R'") if the file has an eye
\* column, pd.read_csv(file) otherwise
ReadFiltered(file) ==
    IF \E i \in 1..Len(file) : "eye" \in DOMAIN file[i]
    THEN SelectSeq(file, LAMBDA row : row.eye = "R")
    ELSE file

\* lines 141-143: pd.concat(..., ignore_index=True) of a non-empty list
Concat(files) == Flatten([k \in 1..Len(files) |-> ReadFiltered(files[k])])

\* line 144: by='tStart' if event_type != 'Sample' else 'tSample'
TimeOf(family, row) == IF family # "Sample" THEN row.tStart ELSE row.tSample

SortedByTime(family, table) ==
    \A i \in 1..(Len(table) - 1) : TimeOf(family, table[i]) <= TimeOf(family, table[i + 1])

\* line 144: sort_values(by=...) with the default kind='quicksort', which is
\* not stable: rows with equal times come out in an order the build decides.
\* The outcomes are the orderings of the rows that are sorted by time.
SortValues(family, table) ==
    {sorted \in {[i \in 1..Len(table) |-> table[perm[i]]] :
                    perm \in Permutations(1..Len(table))} :
        SortedByTime(family, sorted)}

\* line 144: drop_duplicates() keeps the first of each run of equal rows
RECURSIVE DropDuplicates(_)
DropDuplicates(table) ==
    IF table = <<>> THEN <<>>
    ELSE LET front == DropDuplicates(SubSeq(table, 1, Len(table) - 1))
             last == table[Len(table)]
         IN  IF \E i \in 1..Len(front) : front[i] = last
             THEN front
             ELSE Append(front, last)

\* lines 140-144: the tables load_and_filter may return for the files read;
\* reset_index(drop=True) renumbers the rows, which a sequence does by itself
load_and_filter(files, family) ==
    {DropDuplicates(sorted) : sorted \in SortValues(family, Concat(files))}

\* line 152: the smaller of the two pupil channels
SmallerPupil(row) == IF row.RPupil < row.LPupil THEN row.RPupil ELSE row.LPupil

\* lines 152-154: min of the channels, 0 replaced by NaN, then
\* interpolate(method='linear', limit_direction='both'): a missing value
\* between two valid ones lies on the line between them, a missing value
\* before the first (after the last) valid one takes its value. A value is
\* the fraction num / den.
Interpolated(table) ==
    LET raw == [i \in 1..Len(table) |-> SmallerPupil(table[i])]
        valid == {i \in 1..Len(table) : raw[i] # 0}
    IN  [i \in 1..Len(table) |->
            IF i \in valid THEN [num |-> raw[i], den |-> 1]
            ELSE LET before == {j \in valid : j < i}
                     after == {j \in valid : j > i}
                 IN  IF before = {} /\ after = {} THEN NaN
                     ELSE IF before = {}
                          THEN [num |-> raw[CHOOSE j \in after : \A k \in after : j <= k],
                                den |-> 1]
                     ELSE IF after = {}
                          THEN [num |-> raw[CHOOSE j \in before : \A k \in before : j >= k],
                                den |-> 1]
                     ELSE LET lo == CHOOSE j \in before : \A k \in before : j >= k
                              hi == CHOOSE j \in after : \A k \in after : j <= k
                          IN  [num |-> raw[lo] * (hi - lo) + (raw[hi] - raw[lo]) * (i - lo),
                               den |-> hi - lo]]

\* bool(series), which Python calls on the left half of the chained comparison
\* 5 < all_sac.vPeak < 1000 (line 157), i.e. (5 < vPeak) and (vPeak < 1000):
\* pandas raises ValueError for the truth value of a Series, whatever it holds
SeriesBool(series) == [raises |-> "ValueError"]

\* line 157
CleanSaccades(all_sac) ==
    LET left == [i \in 1..Len(all_sac) |-> 5 < all_sac[i].vPeak]
        truth == SeriesBool(left)
    IN  IF truth.raises # NoError
        THEN [raises |-> truth.raises]
        ELSE [raises |-> NoError,
              table |-> SelectSeq(all_sac, LAMBDA row :
                            /\ row.ampDeg > 0
                            /\ (IF truth.value THEN row.vPeak < 1000 ELSE 5 < row.vPeak)
                            /\ row.ampDeg < 20
                            /\ row.duration < 600)]

\* line 158
CleanFixations(all_fix) ==
    SelectSeq(all_fix, LAMBDA row : 40 < row.duration /\ row.duration < 1000)

\* lines 146-149, one call of load_and_filter: it reads the family's files,
\* and pd.concat raises ValueError ("No objects to concatenate") when glob
\* found none
LoadFamily ==
    /\ lgpc \in FamilySet
    /\ LET family == lgpc
           k == CHOOSE j \in 1..Len(Families) : Families[j] = family
       IN  IF nfiles[family] = 0
           THEN /\ raised' = "ValueError"
                /\ lgpc' = "raised"
                /\ UNCHANGED <<read, merged>>
           ELSE /\ \E files \in FileContents(family, nfiles[family]) :
                       /\ read' = (read @@ (family :> files))
                       /\ \E table \in load_and_filter(files, family) :
                              merged' = (merged @@ (family :> table))
                /\ lgpc' = IF k < Len(Families) THEN Families[k + 1] ELSE "pupil"
                /\ UNCHANGED raised
    /\ UNCHANGED <<nfiles, pupil_size, returned>>

\* lines 151-154
InterpolatePupil ==
    /\ lgpc = "pupil"
    /\ pupil_size' = Interpolated(merged["Sample"])
    /\ lgpc' = "clean"
    /\ UNCHANGED <<nfiles, read, merged, returned, raised>>

\* lines 156-160: the outlier filters and the return
CleanOutliers ==
    /\ lgpc = "clean"
    /\ LET sac == CleanSaccades(merged["Saccade"])
       IN  IF sac.raises # NoError
           THEN /\ raised' = sac.raises
                /\ lgpc' = "raised"
                /\ UNCHANGED returned
           ELSE /\ returned' = [all_fix |-> CleanFixations(merged["Fixation"]),
                                all_sac |-> sac.table,
                                all_blink |-> merged["Blink"],
                                all_sample |-> merged["Sample"],
                                pupil_size |-> pupil_size]
                /\ lgpc' = "returned"
                /\ UNCHANGED raised
    /\ UNCHANGED <<nfiles, read, merged, pupil_size>>

----------------------------------------------------------------------------
(* Specifications *)

\* find_nearest is about to be called on a sorted, non-empty array; the other three operations are idle
InitNearest ==
    /\ array \in NearestArrays
    /\ value \in NearestQueries
    /\ nearest = NoResult
    /\ fnpc = "call"
    /\ tStart = <<>>
    /\ tEnd = <<>>
    /\ events = <<>>
    /\ eventCol = <<>>
    /\ pepc = "idle"
    /\ output = <<>>
    /\ RECORDING_SESSION_LABEL = <<>>
    /\ identifier = <<>>
    /\ ParticipantID = Unset
    /\ FilePart = Unset
    /\ PartNo = Unset
    /\ TrialType = Unset
    /\ Text = Unset
    /\ Stage = Unset
    /\ PageNum = Unset
    /\ pipc = "idle"
    /\ nfiles = <<>>
    /\ read = <<>>
    /\ merged = <<>>
    /\ pupil_size = <<>>
    /\ lgpc = "idle"
    /\ returned = <<>>
    /\ raised = NoError

\* parse_events is about to run on a sample table indexed 0..n-1; the other three operations are idle
InitEvents ==
    /\ array = <<>>
    /\ value = 0
    /\ nearest = NoResult
    /\ fnpc = "idle"
    /\ \E n \in 1..MaxSamples :
           /\ tStart \in SortedSeqs(SampleTimes, n, n)
           /\ tEnd \in SortedSeqs(SampleTimes, n, n)
    \* a sample window does not end before it starts
    /\ \A i \in 1..Len(tStart) : tStart[i] <= tEnd[i]
    /\ events = <<>>
    /\ eventCol = <<>>
    /\ pepc = "init"
    /\ output = <<>>
    /\ RECORDING_SESSION_LABEL = <<>>
    /\ identifier = <<>>
    /\ ParticipantID = Unset
    /\ FilePart = Unset
    /\ PartNo = Unset
    /\ TrialType = Unset
    /\ Text = Unset
    /\ Stage = Unset
    /\ PageNum = Unset
    /\ pipc = "idle"
    /\ nfiles = <<>>
    /\ read = <<>>
    /\ merged = <<>>
    /\ pupil_size = <<>>
    /\ lgpc = "idle"
    /\ returned = <<>>
    /\ raised = NoError

\* parse_identifier is about to run on one row; the other three operations are idle
InitClassify ==
    /\ array = <<>>
    /\ value = 0
    /\ nearest = NoResult
    /\ fnpc = "idle"
    /\ tStart = <<>>
    /\ tEnd = <<>>
    /\ events = <<>>
    /\ eventCol = <<>>
    /\ pepc = "idle"
    /\ output = <<>>
    /\ RECORDING_SESSION_LABEL \in SessionLabels
    /\ identifier \in Identifiers
    /\ ParticipantID = Unset
    /\ FilePart = Unset
    /\ PartNo = Unset
    /\ TrialType = Unset
    /\ Text = Unset
    /\ Stage = Unset
    /\ PageNum = Unset
    /\ pipc = "parse"
    /\ nfiles = <<>>
    /\ read = <<>>
    /\ merged = <<>>
    /\ pupil_size = <<>>
    /\ lgpc = "idle"
    /\ returned = <<>>
    /\ raised = NoError

\* load_gaze_files is about to run on a data directory; the other three operations are idle
InitLoader ==
    /\ array = <<>>
    /\ value = 0
    /\ nearest = NoResult
    /\ fnpc = "idle"
    /\ tStart = <<>>
    /\ tEnd = <<>>
    /\ events = <<>>
    /\ eventCol = <<>>
    /\ pepc = "idle"
    /\ output = <<>>
    /\ RECORDING_SESSION_LABEL = <<>>
    /\ identifier = <<>>
    /\ ParticipantID = Unset
    /\ FilePart = Unset
    /\ PartNo = Unset
    /\ TrialType = Unset
    /\ Text = Unset
    /\ Stage = Unset
    /\ PageNum = Unset
    /\ pipc = "idle"
    /\ nfiles \in [FamilySet -> 0..MaxFiles]
    /\ read = <<>>
    /\ merged = <<>>
    /\ pupil_size = <<>>
    /\ lgpc = Families[1]
    /\ returned = <<>>
    /\ raised = NoError

NextNearest ==
    \/ FindNearest /\ UNCHANGED <<eventVars, classifyVars, loaderVars>>
    \/ NextQuery /\ UNCHANGED <<eventVars, classifyVars, loaderVars>>

SpecNearest == InitNearest /\ [][NextNearest]_vars

NextEvents ==
    \/ ClearEvents /\ UNCHANGED <<nearestVars, classifyVars, loaderVars>>
    \/ TagEvent /\ UNCHANGED <<nearestVars, classifyVars, loaderVars>>
    \/ ReturnTagged /\ UNCHANGED <<nearestVars, classifyVars, loaderVars>>

SpecEvents == InitEvents /\ [][NextEvents]_vars

NextClassify ==
    \/ ParseColumns /\ UNCHANGED <<nearestVars, eventVars, loaderVars>>
    \/ ParsePageNum /\ UNCHANGED <<nearestVars, eventVars, loaderVars>>

SpecClassify == InitClassify /\ [][NextClassify]_vars

NextLoader ==
    \/ LoadFamily /\ UNCHANGED <<nearestVars, eventVars, classifyVars>>
    \/ InterpolatePupil /\ UNCHANGED <<nearestVars, eventVars, classifyVars>>
    \/ CleanOutliers /\ UNCHANGED <<nearestVars, eventVars, classifyVars>>

SpecLoader == InitLoader /\ [][NextLoader]_vars

----------------------------------------------------------------------------
(* Claims on find_nearest *)

\* the query lies exactly midway between the adjacent distinct elements at
\* Python indices i and i + 1
Midway(a, v, i) ==
    /\ i \in 0..(Len(a) - 2)
    /\ At(a, i) < At(a, i + 1)
    /\ 2 * v = At(a, i) + At(a, i + 1)

\* C1 (as stated in the specification): on a query exactly midway between two
\* adjacent distinct elements seq[i] and seq[i+1], find_nearest returns the
\* earlier element and its index, (seq[i], i); for [10, 20, 30] and 15 it
\* returns (10, 0).
C1_TieReturnsEarlier ==
    fnpc = "return" =>
        /\ \A i \in 0..(Len(array) - 2) :
               Midway(array, value, i) => nearest = <<At(array, i), i>>
        /\ (array = <<10, 20, 30>> /\ value = 15) => nearest = <<10, 0>>

\* C1 (amended): on a query exactly midway between two adjacent distinct
\* elements seq[i] and seq[i+1], find_nearest returns the later element and
\* its index, (seq[i+1], i+1); for [10, 20, 30] and 15 it returns (20, 1).
C1_TieReturnsLater ==
    fnpc = "return" =>
        /\ \A i \in 0..(Len(array) - 2) :
               Midway(array, value, i) => nearest = <<At(array, i + 1), i + 1>>
        /\ (array = <<10, 20, 30>> /\ value = 15) => nearest = <<20, 1>>

\* C1 witness: find_nearest has returned for [10, 20, 30] and the query 15
C1_Witness ==
    /\ fnpc = "return"
    /\ array = <<10, 20, 30>>
    /\ value = 15
    /\ Midway(array, value, 0)

\* C2: find_nearest returns (v, i) with 0 <= i < len(seq), v = seq[i] and
\* |seq[i] - q| <= |seq[j] - q| for every index j; i is 0 when q is below the
\* first element and len(seq) - 1 when q is above the last element.
C2_ReturnsNearest ==
    fnpc = "return" =>
        LET v == nearest[1]
            i == nearest[2]
        IN  /\ i \in 0..(Len(array) - 1)
            /\ v = At(array, i)
            /\ \A j \in 0..(Len(array) - 1) :
                   Abs(At(array, i) - value) <= Abs(At(array, j) - value)
            /\ value < At(array, 0) => i = 0
            /\ value > At(array, Len(array) - 1) => i = Len(array) - 1

\* C2 witness: a call whose query lies strictly inside the array's range, on
\* no element, and nearer to its left neighbour than to its right one
C2_Witness ==
    /\ fnpc = "return"
    /\ Len(array) >= 2
    /\ \E j \in 0..(Len(array) - 2) :
           /\ At(array, j) < value
           /\ value < At(array, j + 1)
           /\ value - At(array, j) < At(array, j + 1) - value
           /\ nearest = <<At(array, j), j>>

----------------------------------------------------------------------------
(* Claims on parse_events *)

\* the ranges (start_idx, end_idx] of the processed events, in input order
EventRanges == [k \in 1..Len(events) |-> EventRange(tStart, tEnd, events[k])]

\* sample i lies in the k-th range of rs
Covers(rs, k, i) == rs[k].start_idx < i /\ i <= rs[k].end_idx

Covered(rs) == {i \in 0..(Len(tStart) - 1) : \E k \in 1..Len(rs) : Covers(rs, k, i)}

\* the last range of rs, in input order, that contains sample i
LastCovering(rs, i) ==
    CHOOSE k \in 1..Len(rs) :
        /\ Covers(rs, k, i)
        /\ \A m \in (k + 1)..Len(rs) : ~Covers(rs, m, i)

\* C3: parse_events returns exactly the input samples, in their original
\* order, whose index i satisfies start_idx < i <= end_idx for at least one
\* event; an event with start_idx >= end_idx tags no sample and raises no
\* error, and a sample covered by no event is absent from the output.
C3_OutputIsCoveredSamples ==
    pepc = "done" =>
        LET covered == Covered(EventRanges)
        IN  /\ \A i \in 0..(Len(tStart) - 1) :
                   (At(eventCol, i) # NaN) <=> (i \in covered)
            /\ {output[j].idx : j \in 1..Len(output)} = covered
            /\ \A j \in 1..(Len(output) - 1) : output[j].idx < output[j + 1].idx
            /\ \A j \in 1..Len(output) :
                   /\ output[j].tStart = At(tStart, output[j].idx)
                   /\ output[j].tEnd = At(tEnd, output[j].idx)

\* C3 witness: parse_events has returned; one event had an empty range, one
\* sample was tagged and kept, one sample after index 0 was never tagged and
\* is dropped
C3_Witness ==
    /\ pepc = "done"
    /\ LET rs == EventRanges
           covered == Covered(rs)
       IN  /\ \E k \in 1..Len(rs) : rs[k].start_idx >= rs[k].end_idx
           /\ \E j \in 1..Len(output) : output[j].idx \in covered
           /\ \E i \in 1..(Len(tStart) - 1) :
                  /\ i \notin covered
                  /\ \A j \in 1..Len(output) : output[j].idx # i

\* C4: every sample of the output carries exactly one label, that of the last
\* event in input order whose range (start_idx, end_idx] contains its index: a
\* later event overwrites an earlier one on the overlap of their ranges, and
\* a sample only in the earlier range keeps the earlier label.
C4_LastEventWins ==
    pepc = "done" =>
        LET rs == EventRanges
            covered == Covered(rs)
        IN  /\ \A i \in covered :
                   At(eventCol, i) = events[LastCovering(rs, i)].EVENT
            /\ \A j \in 1..Len(output) :
                   /\ output[j].idx \in covered
                   /\ output[j].event = events[LastCovering(rs, output[j].idx)].EVENT

\* C4 witness: parse_events has returned after two events with different
\* labels whose ranges overlap; one sample lies in both ranges and one only
\* in the earlier
C4_Witness ==
    /\ pepc = "done"
    /\ Len(events) = 2
    /\ events[1].EVENT # events[2].EVENT
    /\ LET rs == EventRanges
       IN  \E i, j \in 0..(Len(tStart) - 1) :
               /\ Covers(rs, 1, i) /\ Covers(rs, 2, i)
               /\ Covers(rs, 1, j) /\ ~Covers(rs, 2, j)
               /\ \E a, b \in 1..Len(output) :
                      /\ output[a].idx = i /\ output[a].event = events[2].EVENT
                      /\ output[b].idx = j /\ output[b].event = events[1].EVENT

----------------------------------------------------------------------------
(* Claims on parse_identifier *)

\* the TrialType rules in the order the specification lists them: rules 1 to
\* 15 are substring rules, rule 16 is the sentinel participant with a
\* case-insensitive sham, rule 17 is ShamStart
TrialRulePatterns ==
    <<S_Sham, S_Practice, S_MW, S_SVT, S_Inf, S_Rote, S_Deep, S_DriftCorrect, S_Recal,
      S_BIGBREAK, S_Resting, S_Localizer, S_IBI_began, S_Lang_Task, S_UNDEFINED,
      S_sham, S_ShamStart>>

TrialRuleLabels ==
    <<"sham", "Prac", "MW", "SVT", "Inference", "Rote", "Deep", "DriftCorrect", "Recal",
      "Break", "restingState", "Localizer", "Localizer", "Localizer", "UNDEFINED",
      "NA", "NA">>

TrialRuleMatches(k) ==
    IF k = 16
    THEN Contains(S_EML1_001, ParticipantID) /\ Contains(S_sham, Lower(identifier))
    ELSE Contains(TrialRulePatterns[k], identifier)

TextRulePatterns == <<S_Validity, S_Bias, S_CausalClaims, S_Variables, S_Hypotheses>>

TextRuleLabels == <<"Validity", "Bias", "CausalClaims", "Variables", "Hypotheses">>

\* k is the first rule that matches
FirstTrialRule(k) == TrialRuleMatches(k) /\ \A j \in 1..(k - 1) : ~TrialRuleMatches(j)

FirstTextRule(k) ==
    /\ Contains(TextRulePatterns[k], identifier)
    /\ \A j \in 1..(k - 1) : ~Contains(TextRulePatterns[j], identifier)

\* C5: TrialType is the label of the first rule, in the order Sham, Practice,
\* MW, SVT, Inf, Rote, Deep, DriftCorrect, Recal, BIGBREAK, Resting, Localizer,
\* 'IBI began', 'Lang Task', UNDEFINED, (sentinel participant and
\* case-insensitive 'sham'), ShamStart, whose substring occurs in the
\* identifier, and 'reading' when no rule matches; Text is the first of
\* Validity, Bias, CausalClaims, Variables, Hypotheses contained in the
\* identifier, else 'NA'; an identifier with none of the recognized substrings
\* yields TrialType = 'reading', Text = 'NA', Stage = 'X'.
C5_FirstMatchWins ==
    pipc \in {"pagenum", "done"} =>
        /\ \A k \in 1..Len(TrialRulePatterns) :
               FirstTrialRule(k) => TrialType = TrialRuleLabels[k]
        /\ (\A k \in 1..Len(TrialRulePatterns) : ~TrialRuleMatches(k)) => TrialType = "reading"
        /\ \A k \in 1..Len(TextRulePatterns) :
               FirstTextRule(k) => Text = TextRuleLabels[k]
        /\ (\A k \in 1..Len(TextRulePatterns) : ~Contains(TextRulePatterns[k], identifier))
               => Text = "NA"
        /\ (/\ \A k \in 1..Len(TrialRulePatterns) : ~TrialRuleMatches(k)
            /\ \A k \in 1..Len(TextRulePatterns) : ~Contains(TextRulePatterns[k], identifier)
            /\ ~Contains(S_Z_Question, identifier)
            /\ ~Contains(S_Y_Question, identifier))
               => (TrialType = "reading" /\ Text = "NA" /\ Stage = "X")

\* C5 witness: a classified identifier that two TrialType rules with
\* different labels match, labelled by the earlier of the two, and that no
\* Text rule matches
C5_Witness ==
    /\ pipc = "done"
    /\ \E k \in 1..Len(TrialRulePatterns) :
           /\ FirstTrialRule(k)
           /\ \E m \in (k + 1)..Len(TrialRulePatterns) :
                  TrialRuleMatches(m) /\ TrialRuleLabels[m] # TrialRuleLabels[k]
           /\ TrialType = TrialRuleLabels[k]
    /\ \A k \in 1..Len(TextRulePatterns) : ~Contains(TextRulePatterns[k], identifier)
    /\ Text = "NA"

\* the position of the first digit of the identifier, 0 when it has none
FirstDigitAt ==
    IF \E i \in 1..Len(identifier) : IsDigit(identifier[i])
    THEN CHOOSE i \in 1..Len(identifier) :
             /\ IsDigit(identifier[i])
             /\ \A j \in 1..(i - 1) : ~IsDigit(identifier[j])
    ELSE 0

\* C6: with d the first digit of the identifier, PageNum = d + 1 when the
\* record is a reading, sham or practice trial, PageNum = d for every other
\* TrialType, and PageNum is the empty marker when the identifier has no
\* digit. (TrialType names a practice trial 'Prac'.)
C6_PageNumIncrement ==
    pipc = "done" =>
        IF FirstDigitAt = 0
        THEN PageNum = EmptyStr
        ELSE LET d == IntOf(identifier[FirstDigitAt])
             IN  IF TrialType \in {"reading", "sham", "Prac"}
                 THEN PageNum = IntValue(d + 1)
                 ELSE PageNum = IntValue(d)

\* C10: TrialType 'NA' is produced only for a ParticipantID containing
\* 'EML1_001' and an identifier that contains 'sham' case-insensitively but
\* neither 'Sham' nor the substring of any earlier rule; the ShamStart rule is
\* never the first match, and an identifier containing 'ShamStart' is
\* classified 'sham', never 'NA'.
C10_NAOnlyFromSentinel ==
    pipc \in {"pagenum", "done"} =>
        /\ TrialType = "NA" =>
               /\ Contains(S_EML1_001, ParticipantID)
               /\ Contains(S_sham, Lower(identifier))
               /\ \A k \in 1..15 : ~Contains(TrialRulePatterns[k], identifier)
        /\ ~FirstTrialRule(17)
        /\ Contains(S_ShamStart, identifier) => TrialType = "sham"

\* C10 witness: a record of the sentinel participant whose identifier contains
\* 'ShamStart' has been classified
C10_Witness ==
    /\ pipc = "done"
    /\ Contains(S_EML1_001, ParticipantID)
    /\ Contains(S_ShamStart, identifier)
    /\ TrialType = "sham"

----------------------------------------------------------------------------
(* Claims on load_gaze_files *)

NoDuplicates(table) == \A i, j \in 1..Len(table) : table[i] = table[j] => i = j

\* C7: load_gaze_files returns, without raising, exactly the rows of the merged
\* saccade table with ampDeg > 0, 5 < vPeak < 1000, ampDeg < 20 and
\* duration < 600 (a row with vPeak 5 or 1000 is excluded), and exactly the
\* rows of the merged fixation table with 40 < duration < 1000.
C7_OutlierFilters ==
    (lgpc \in {"returned", "raised"} /\ \A f \in FamilySet : nfiles[f] > 0) =>
        /\ raised = NoError
        /\ returned.all_sac =
               SelectSeq(merged["Saccade"], LAMBDA row :
                   /\ row.ampDeg > 0
                   /\ 5 < row.vPeak /\ row.vPeak < 1000
                   /\ row.ampDeg < 20
                   /\ row.duration < 600)
        /\ returned.all_fix =
               SelectSeq(merged["Fixation"], LAMBDA row :
                   40 < row.duration /\ row.duration < 1000)

\* C8: when the directory has no file of one of the four families,
\* load_gaze_files does not fail: it returns an empty table for that family
\* and the tables of the other families.
C8_MissingFamilyIsEmpty ==
    (lgpc \in {"returned", "raised"} /\ \E f \in FamilySet : nfiles[f] = 0) =>
        /\ raised = NoError
        /\ nfiles["Fixation"] = 0 => returned.all_fix = <<>>
        /\ nfiles["Saccade"] = 0 => returned.all_sac = <<>>
        /\ nfiles["Blink"] = 0 => returned.all_blink = <<>>
        /\ nfiles["Sample"] = 0 => returned.all_sample = <<>>

\* C9: the sort and dedup step of load_and_filter returns a table that is
\* sorted by the time column and has no duplicate rows, and it returns a table
\* that is already sorted and free of duplicates unchanged, rows with equal
\* times included.
C9_SortDedupIdempotent ==
    \A f \in DOMAIN merged :
        LET all_data == Concat(read[f])
        IN  /\ SortedByTime(f, merged[f])
            /\ NoDuplicates(merged[f])
            /\ (SortedByTime(f, all_data) /\ NoDuplicates(all_data)) => merged[f] = all_data

=============================================================================
